---- MODULE Spec2Model ----
(***************************************************************************)
(* Lahore AQI predictor: the alert throttle (alerts/notification.py) and   *)
(* the model resolver (inference/predict.py) as state machines.            *)
(*                                                                         *)
(*   AlertSpec     callers of check_and_alert against the shared alert log *)
(*   SeqAlertSpec  one caller of check_and_alert, call after call          *)
(*   ResolverSpec  the import-time preload and the request threads of      *)
(*                 make_prediction sharing LOADED_MODEL / LOADED_MODEL_NAME*)
(*   ScanSpec      the version scan loop of load_model_globally alone      *)
(*   ForecastSpec  one run of make_prediction past the model check: the    *)
(*                 weather fetch, the history seeds and the forecast loop  *)
(*   AqiSpec       calculate_aqi_us (features/preprocessing.py) on one     *)
(*                 reading, then on a reading with one pollutant raised    *)
(*   TwinSpec      two runs of the forecast loop on the same seeds,        *)
(*                 weather points and model function                       *)
(*                                                                         *)
(* Times are whole hours.  Metrics (MAE) are hundredths: 15.50 is 1550.    *)
(* AQI values of the forecast loop are fixed point, SCALE units to 1 AQI.  *)
(* Concentrations are hundredths of a ug/m3; an index is a mixed fraction  *)
(* <<whole, rest, denominator>>.                                           *)
(***************************************************************************)
EXTENDS Integers, Sequences, FiniteSets, TLC

VARIABLES
  \* ---- alert throttle ----
  now,              \* datetime.now(), hours
  API_KEY,          \* notification.py:12, TRUE when BREVO_API_KEY is set
  alert_log,        \* timestamp of document "latest_email_alert", None if absent
  a_pc,             \* position of each caller of check_and_alert
  aqi,              \* check_and_alert: aqi = prediction['aqi']
  last_sent,        \* check_and_alert: last_sent
  hours_passed,     \* check_and_alert: hours_passed (0 while last_sent is None)
  stored_age,       \* age of the stored timestamp when last_sent was read
  response,         \* send_alert_email: response (status), or the exception
  a_out,            \* how the call ended
  sent_at,          \* when requests.post last answered 201, None if never
  \* ---- model resolver ----
  registry,         \* metric of each registered version of "NeuralNetwork"
  preloaded,        \* predict.py:272 has run
  LOADED_MODEL,     \* predict.py:40
  LOADED_MODEL_NAME,\* predict.py:41
  r_pc,             \* position of each thread
  kind,             \* "import" (line 272) or "predict" (api.py:22)
  best_version_obj, \* load_model_globally: best_version_obj
  ret_model,        \* first component of the value load_model_globally returns
  ret_name,         \* second component
  result,           \* what make_prediction returns
  scanned,          \* this call ran the registry scan
  reg_error,        \* the registry call that failed in this call, if any
  began_cached,     \* a call had already succeeded when this call began
  first_ok,         \* <<handle, name>> returned by the first successful call
  \* ---- the scan loop alone ----
  s_listing,        \* all_versions
  s_i,              \* number of versions visited
  s_best,           \* <<best_mae, best_version_obj>>
  \* ---- one forecast run ----
  f_pc,             \* position in make_prediction
  collection,       \* the historical collection: a set of <<age, aqi>>
  weather_list,     \* len(res['list']) of the weather response
  forecasts,        \* make_prediction: forecasts (indices taken from the list)
  current_lag_1,    \* make_prediction: current_lag_1
  current_lag_6,    \* make_prediction: current_lag_6
  current_lag_24,   \* make_prediction: current_lag_24
  current_roll_mean,\* make_prediction: current_roll_mean
  last_pred_aqi,    \* make_prediction: last_pred_aqi, None before step 0
  running_lag_1,    \* make_prediction: running_lag_1
  running_lag_6,    \* make_prediction: running_lag_6
  fed,              \* the lag features of each model.predict call so far
  outputs,          \* pred_val of each step so far
  predictions,      \* make_prediction: predictions
  f_result,         \* what make_prediction returns, or that it raised
  \* ---- AQI calculator ----
  q_pc,             \* "input", "done"
  pm2_5,            \* row['pm2_5']
  pm10,             \* row['pm10']
  aqi_25,           \* calculate_aqi_us: aqi_25
  aqi_10,           \* calculate_aqi_us: aqi_10
  q_aqi,            \* what calculate_aqi_us returns
  q_prev,           \* <<pollutant, conc, sub-index>> of the reading before
  \* ---- two runs of the forecast loop on the same inputs ----
  t_model,          \* the model function both runs call
  t_seed,           \* <<current_lag_1, current_lag_6, current_lag_24,
                    \*   current_roll_mean>> both runs start from
  t_forecasts,      \* forecasts of both runs
  t_last_pred_aqi,  \* last_pred_aqi of each run
  t_running_lag_1,  \* running_lag_1 of each run
  t_running_lag_6,  \* running_lag_6 of each run
  t_fed,            \* the features of each model.predict call of each run
  t_predictions     \* predictions of each run

alert_vars == <<now, API_KEY, alert_log, a_pc, aqi, last_sent, hours_passed,
                stored_age, response, a_out, sent_at>>
resolver_vars == <<registry, preloaded, LOADED_MODEL, LOADED_MODEL_NAME, r_pc,
                   kind, best_version_obj, ret_model, ret_name, result,
                   scanned, reg_error, began_cached, first_ok>>
scan_vars == <<s_listing, s_i, s_best>>
forecast_vars == <<f_pc, collection, weather_list, forecasts, current_lag_1,
                   current_lag_6, current_lag_24, current_roll_mean,
                   last_pred_aqi, running_lag_1, running_lag_6, fed, outputs,
                   predictions, f_result>>
aqi_vars == <<pm2_5, pm10, q_pc, aqi_25, aqi_10, q_aqi, q_prev>>
twin_vars == <<t_model, t_seed, t_forecasts, t_last_pred_aqi, t_running_lag_1,
               t_running_lag_6, t_fed, t_predictions>>
vars == <<alert_vars, resolver_vars, scan_vars, forecast_vars, aqi_vars,
          twin_vars>>

\* Python's None; timestamps, handles and version objects are tuples.
None == <<>>

(***************************************************************************)
(* Bounds                                                                  *)
(***************************************************************************)
MaxTime == 8
MaxRegistered == 2
MaxListed == 3

Procs == {1, 2}
Threads == {1, 2}
AqiInputs == {300, 301}

(***************************************************************************)
(* Alert throttle: alerts/notification.py                                  *)
(***************************************************************************)
COOLDOWN_HOURS == 6
ALERT_THRESHOLD == 300

Responses == {"201", "other", "exception"}

Stamp(t) == <<t>>

\* Lines 123-124: hours_passed for a timestamp.
HoursSince(ts) == now - ts[1]

\* Age of what the alert log holds, None when it holds nothing.
Age(log) == IF log = None THEN None ELSE <<HoursSince(log)>>

\* get_last_alert_time: the stored timestamp, or None when the document is
\* absent or the store raises.
get_last_alert_time(db_ok) == IF db_ok THEN alert_log ELSE None

\* update_last_alert_time: upsert of datetime.now(); a store error is swallowed.
update_last_alert_time(db_ok) == IF db_ok THEN Stamp(now) ELSE alert_log

\* The cooldown with its boundary hour still suppressed.
InCooldown_inclusive(ls) == ls # None /\ HoursSince(ls) <= COOLDOWN_HOURS

\* check_and_alert lines 122-128: TRUE when the cooldown suppresses the alert.
InCooldown(ls) == ls # None /\ HoursSince(ls) < COOLDOWN_HOURS

\* Any HTTP response taken for a success.
SendSucceeded_anyResponse(resp) == resp # "exception"

\* send_alert_email line 97: the send succeeded.
SendSucceeded(resp) == resp = "201"

\* send_alert_email line 58: the guard on the API key.
KeyGuardPasses == API_KEY

AlertFinish(p, out) ==
  /\ a_pc' = [a_pc EXCEPT ![p] = "done"]
  /\ a_out' = [a_out EXCEPT ![p] = out]

\* check_and_alert lines 110-117.
CheckThreshold(p, a) ==
  /\ a_pc[p] = "idle"
  /\ aqi' = [aqi EXCEPT ![p] = a]
  /\ IF a <= ALERT_THRESHOLD
       THEN AlertFinish(p, "safe")
       ELSE a_pc' = [a_pc EXCEPT ![p] = "L120"] /\ UNCHANGED a_out
  /\ UNCHANGED <<now, API_KEY, alert_log, last_sent, hours_passed, stored_age,
                 response, sent_at>>
  /\ UNCHANGED <<resolver_vars, scan_vars, forecast_vars, aqi_vars,
                 twin_vars>>

\* check_and_alert lines 120-128.
CheckCooldown(p, db_ok) ==
  /\ a_pc[p] = "L120"
  /\ LET ls == get_last_alert_time(db_ok) IN
       /\ last_sent' = [last_sent EXCEPT ![p] = ls]
       /\ stored_age' = [stored_age EXCEPT ![p] = Age(alert_log)]
       /\ hours_passed' = [hours_passed EXCEPT
                             ![p] = IF ls # None THEN HoursSince(ls) ELSE 0]
       /\ IF InCooldown(ls)
            THEN AlertFinish(p, "skipped")
            ELSE a_pc' = [a_pc EXCEPT ![p] = "L132"] /\ UNCHANGED a_out
  /\ UNCHANGED <<now, API_KEY, alert_log, aqi, response, sent_at>>
  /\ UNCHANGED <<resolver_vars, scan_vars, forecast_vars, aqi_vars,
                 twin_vars>>

\* send_alert_email lines 58-104, up to the call of update_last_alert_time.
SendAlertEmail(p, resp) ==
  /\ a_pc[p] = "L132"
  /\ IF ~KeyGuardPasses
       THEN AlertFinish(p, "nokey") /\ UNCHANGED <<response, sent_at>>
       ELSE /\ response' = [response EXCEPT ![p] = resp]
            /\ sent_at' = IF resp = "201" THEN Stamp(now) ELSE sent_at
            /\ IF SendSucceeded(resp)
                 THEN a_pc' = [a_pc EXCEPT ![p] = "L100"] /\ UNCHANGED a_out
                 ELSE AlertFinish(p, "failed")
  /\ UNCHANGED <<now, API_KEY, alert_log, aqi, last_sent, hours_passed,
                 stored_age>>
  /\ UNCHANGED <<resolver_vars, scan_vars, forecast_vars, aqi_vars,
                 twin_vars>>

\* send_alert_email line 100: update_last_alert_time().
CommitAlertTime(p, db_ok) ==
  /\ a_pc[p] = "L100"
  /\ alert_log' = update_last_alert_time(db_ok)
  /\ AlertFinish(p, "sent")
  /\ UNCHANGED <<now, API_KEY, aqi, last_sent, hours_passed, stored_age,
                 response, sent_at>>
  /\ UNCHANGED <<resolver_vars, scan_vars, forecast_vars, aqi_vars,
                 twin_vars>>

\* What check_and_alert hands back to its caller for each way it can end:
\* lines 116 and 127 are a bare "return", line 132 discards the value of
\* send_alert_email (itself None on every path, lines 60 and 95-104) and
\* falls off the end of the function.
check_and_alert_returns(out) == None

\* check_and_alert returns to its caller.
AlertReturn(p) ==
  /\ a_pc[p] = "done"
  /\ a_pc' = [a_pc EXCEPT ![p] = "idle"]
  /\ a_out' = [a_out EXCEPT ![p] = "none"]
  /\ aqi' = [aqi EXCEPT ![p] = 0]
  /\ last_sent' = [last_sent EXCEPT ![p] = None]
  /\ stored_age' = [stored_age EXCEPT ![p] = None]
  /\ response' = [response EXCEPT ![p] = "none"]
  /\ hours_passed' = [hours_passed EXCEPT ![p] = 0]
  /\ UNCHANGED <<now, API_KEY, alert_log, sent_at>>
  /\ UNCHANGED <<resolver_vars, scan_vars, forecast_vars, aqi_vars,
                 twin_vars>>

\* The clock.
Tick ==
  /\ now < MaxTime
  /\ now' = now + 1
  /\ UNCHANGED <<API_KEY, alert_log, a_pc, aqi, last_sent, hours_passed,
                 stored_age, response, a_out, sent_at>>
  /\ UNCHANGED <<resolver_vars, scan_vars, forecast_vars, aqi_vars,
                 twin_vars>>

AlertInit ==
  /\ now = 0
  /\ API_KEY \in BOOLEAN
  /\ alert_log \in {None, Stamp(0)}
  /\ a_pc = [p \in Procs |-> "idle"]
  /\ aqi = [p \in Procs |-> 0]
  /\ last_sent = [p \in Procs |-> None]
  /\ hours_passed = [p \in Procs |-> 0]
  /\ stored_age = [p \in Procs |-> None]
  /\ response = [p \in Procs |-> "none"]
  /\ a_out = [p \in Procs |-> "none"]
  /\ sent_at = None

AlertNext ==
  \/ \E p \in Procs, a \in AqiInputs : CheckThreshold(p, a)
  \/ \E p \in Procs, db_ok \in BOOLEAN : CheckCooldown(p, db_ok)
  \/ \E p \in Procs, resp \in Responses : SendAlertEmail(p, resp)
  \/ \E p \in Procs, db_ok \in BOOLEAN : CommitAlertTime(p, db_ok)
  \/ \E p \in Procs : AlertReturn(p)
  \/ Tick

(***************************************************************************)
(* Model resolver: inference/predict.py, load_model_globally               *)
(***************************************************************************)
MAE_LO == 1550
MAE_HI == 1555
INF == 999999
RunFails == -1

\* Metrics a registered run can carry: around both ends of the filter range,
\* and INF for a run without "mae" (metrics.get("mae", float("inf"))).
Metrics == {1549, 1550, 1555, 1556, INF}

\* A version object as the scan sees it: <<version, mae>>, mae = RunFails when
\* get_run or the float conversion raises.
version(v) == v[1]
mae_of(v) == v[2]

\* The filter without its lower end.
InRange_upperOnly(mae) == mae <= MAE_HI

\* Line 91: the filter.
InRange(mae) == MAE_LO <= mae /\ mae <= MAE_HI

\* No tie-break: the version listed first is kept.
TieBreak_keepFirst(v, best) == FALSE

\* Lines 99-100: the tie-break on equal metric.
TieBreak(v, best) == best # None /\ version(v) > version(best)

\* A failed metric read throws away what the loop had found so far.
ScanVisit_dropOnFailure(st, v) ==
  IF mae_of(v) = RunFails THEN <<INF, None>>
  ELSE IF InRange(mae_of(v))
    THEN IF mae_of(v) < st[1] THEN <<mae_of(v), v>>
         ELSE IF mae_of(v) = st[1] /\ TieBreak(v, st[2])
                THEN <<st[1], v>>
                ELSE st
    ELSE st

\* Lines 86-105: one iteration of the loop over all_versions;
\* st = <<best_mae, best_version_obj>>.
ScanVisit(st, v) ==
  IF mae_of(v) = RunFails THEN st
  ELSE IF InRange(mae_of(v))
    THEN IF mae_of(v) < st[1] THEN <<mae_of(v), v>>
         ELSE IF mae_of(v) = st[1] /\ TieBreak(v, st[2])
                THEN <<st[1], v>>
                ELSE st
    ELSE st

\* Lines 73-75.
ScanStart == <<INF, None>>

RECURSIVE ScanFrom(_, _, _)
ScanFrom(st, listing, i) ==
  IF i > Len(listing) THEN st
  ELSE ScanFrom(ScanVisit(st, listing[i]), listing, i + 1)

\* Lines 73-105: the whole loop.
ScanAll(listing) == ScanFrom(ScanStart, listing, 1)

\* Line 116: f"{best_model_name} v{best_version_obj.version}".
ModelName(v) == "NeuralNetwork v" \o ToString(version(v))

\* Line 115: the object mlflow.pyfunc.load_model returns; every load makes a
\* new one, and a thread loads at most once (the cache is never reset).
Handle(v, t) == <<version(v), t>>

Injective(s) == \A i, j \in DOMAIN s : i # j => s[i] # s[j]

\* Orders in which search_model_versions may list the versions 1..n.
Orders(n) == {o \in [1..n -> 1..n] : Injective(o)}

\* What one scan can observe of the registry: any order, any run unreadable.
Listings(reg) ==
  {[i \in 1..Len(reg) |-> <<o[i], IF o[i] \in bad THEN RunFails ELSE reg[o[i]]>>] :
     o \in Orders(Len(reg)), bad \in SUBSET (1..Len(reg))}

Registries == UNION {[1..n -> Metrics] : n \in 0..MaxRegistered}

\* The value load_model_globally returns, from locals (lines 109, 122).
ReturnLocal(t, model, name) ==
  /\ ret_model' = [ret_model EXCEPT ![t] = model]
  /\ ret_name' = [ret_name EXCEPT ![t] = name]
  /\ r_pc' = [r_pc EXCEPT ![t] = "ret"]

\* No outer handler: the exception leaves load_model_globally.
OnRegistryError_raise(t) ==
  /\ r_pc' = [r_pc EXCEPT ![t] = "raised"]
  /\ UNCHANGED <<ret_model, ret_name>>

\* Lines 120-122: the outer handler.
OnRegistryError(t) == ReturnLocal(t, None, "Error")

\* Lines 107-109.
OnNoCandidate(t) == ReturnLocal(t, None, "No Model")

\* predict.py:272 (the preload at import, main thread only) or api.py:22 ->
\* predict.py:169: a thread enters load_model_globally.
Enter(t, k) ==
  /\ r_pc[t] = "idle"
  /\ IF k = "import" THEN ~preloaded /\ t = 1 ELSE preloaded
  /\ kind' = [kind EXCEPT ![t] = k]
  /\ began_cached' = [began_cached EXCEPT ![t] = first_ok # None]
  /\ r_pc' = [r_pc EXCEPT ![t] = "L63"]
  /\ UNCHANGED <<registry, preloaded, LOADED_MODEL, LOADED_MODEL_NAME,
                 best_version_obj, ret_model, ret_name, result,
                 scanned, reg_error, first_ok>>
  /\ UNCHANGED <<alert_vars, scan_vars, forecast_vars, aqi_vars,
                 twin_vars>>

\* The attempt memoized instead of the model.
CacheHit_attempted == LOADED_MODEL # None \/ preloaded

\* Line 63: if LOADED_MODEL is not None.
CacheHit == LOADED_MODEL # None

CheckCache(t) ==
  /\ r_pc[t] = "L63"
  /\ r_pc' = [r_pc EXCEPT ![t] = IF CacheHit THEN "L64" ELSE "L69"]
  /\ UNCHANGED <<registry, preloaded, LOADED_MODEL, LOADED_MODEL_NAME, kind,
                 best_version_obj, ret_model, ret_name, result,
                 scanned, reg_error, began_cached, first_ok>>
  /\ UNCHANGED <<alert_vars, scan_vars, forecast_vars, aqi_vars,
                 twin_vars>>

\* Lines 64 and 118: return LOADED_MODEL, LOADED_MODEL_NAME reads the two
\* globals one after the other.
ReturnReadModel(t) ==
  /\ r_pc[t] \in {"L64", "L118"}
  /\ ret_model' = [ret_model EXCEPT ![t] = LOADED_MODEL]
  /\ r_pc' = [r_pc EXCEPT ![t] = "name"]
  /\ UNCHANGED <<registry, preloaded, LOADED_MODEL, LOADED_MODEL_NAME, kind,
                 best_version_obj, ret_name, result, scanned, reg_error,
                 began_cached, first_ok>>
  /\ UNCHANGED <<alert_vars, scan_vars, forecast_vars, aqi_vars,
                 twin_vars>>

ReturnReadName(t) ==
  /\ r_pc[t] = "name"
  /\ ret_name' = [ret_name EXCEPT ![t] = LOADED_MODEL_NAME]
  /\ r_pc' = [r_pc EXCEPT ![t] = "ret"]
  /\ first_ok' = IF first_ok = None /\ ret_model[t] # None
                   THEN <<ret_model[t], LOADED_MODEL_NAME>>
                   ELSE first_ok
  /\ UNCHANGED <<registry, preloaded, LOADED_MODEL, LOADED_MODEL_NAME, kind,
                 best_version_obj, ret_model, result, scanned, reg_error,
                 began_cached>>
  /\ UNCHANGED <<alert_vars, scan_vars, forecast_vars, aqi_vars,
                 twin_vars>>

\* Lines 68-109: the client, the listing and the loop.  client_ok: line 69
\* returns; search_ok: line 81 returns (else line 83, continue).
Scan(t, client_ok, search_ok) ==
  /\ r_pc[t] = "L69"
  /\ scanned' = [scanned EXCEPT ![t] = TRUE]
  /\ reg_error' = [reg_error EXCEPT ![t] = IF ~client_ok THEN "client"
                                           ELSE IF ~search_ok THEN "search"
                                           ELSE "none"]
  /\ IF ~client_ok
       THEN /\ OnRegistryError(t)
            /\ UNCHANGED <<best_version_obj>>
       ELSE \E listing \in Listings(registry) :
            LET all_versions == IF search_ok THEN listing ELSE <<>>
                best == ScanAll(all_versions)[2]
            IN /\ best_version_obj' = [best_version_obj EXCEPT ![t] = best]
               /\ IF best = None
                    THEN OnNoCandidate(t)
                    ELSE /\ r_pc' = [r_pc EXCEPT ![t] = "L115"]
                         /\ UNCHANGED <<ret_model, ret_name>>
  /\ UNCHANGED <<registry, preloaded, LOADED_MODEL, LOADED_MODEL_NAME, kind,
                 result, began_cached, first_ok>>
  /\ UNCHANGED <<alert_vars, scan_vars, forecast_vars, aqi_vars,
                 twin_vars>>

\* Line 115: LOADED_MODEL = mlflow.pyfunc.load_model(model_uri).
LoadModel(t, load_ok) ==
  /\ r_pc[t] = "L115"
  /\ IF load_ok
       THEN /\ LOADED_MODEL' = Handle(best_version_obj[t], t)
            /\ r_pc' = [r_pc EXCEPT ![t] = "L116"]
            /\ UNCHANGED <<ret_model, ret_name, reg_error>>
       ELSE /\ OnRegistryError(t)
            /\ reg_error' = [reg_error EXCEPT ![t] = "load"]
            /\ UNCHANGED LOADED_MODEL
  /\ UNCHANGED <<registry, preloaded, LOADED_MODEL_NAME, kind,
                 best_version_obj, result, scanned, began_cached, first_ok>>
  /\ UNCHANGED <<alert_vars, scan_vars, forecast_vars, aqi_vars,
                 twin_vars>>

\* Line 116.
SetName(t) ==
  /\ r_pc[t] = "L116"
  /\ LOADED_MODEL_NAME' = ModelName(best_version_obj[t])
  /\ r_pc' = [r_pc EXCEPT ![t] = "L118"]
  /\ UNCHANGED <<registry, preloaded, LOADED_MODEL, kind, best_version_obj,
                 ret_model, ret_name, result, scanned, reg_error,
                 began_cached, first_ok>>
  /\ UNCHANGED <<alert_vars, scan_vars, forecast_vars, aqi_vars,
                 twin_vars>>

ResetCall(t) ==
  /\ r_pc' = [r_pc EXCEPT ![t] = "idle"]
  /\ kind' = [kind EXCEPT ![t] = "none"]
  /\ best_version_obj' = [best_version_obj EXCEPT ![t] = None]
  /\ ret_model' = [ret_model EXCEPT ![t] = None]
  /\ ret_name' = [ret_name EXCEPT ![t] = ""]
  /\ result' = [result EXCEPT ![t] = <<"none", "">>]
  /\ scanned' = [scanned EXCEPT ![t] = FALSE]
  /\ reg_error' = [reg_error EXCEPT ![t] = "none"]
  /\ began_cached' = [began_cached EXCEPT ![t] = FALSE]

\* Line 272: the preload's value is dropped; the module is imported.
PreloadDone(t) ==
  /\ r_pc[t] = "ret" /\ kind[t] = "import"
  /\ preloaded' = TRUE
  /\ ResetCall(t)
  /\ UNCHANGED <<registry, LOADED_MODEL, LOADED_MODEL_NAME, first_ok>>
  /\ UNCHANGED <<alert_vars, scan_vars, forecast_vars, aqi_vars,
                 twin_vars>>

\* The guard of line 170 dropped.
ModelMissing_never(t) == FALSE

\* make_prediction line 170: if not model.
ModelMissing(t) == ret_model[t] = None

\* make_prediction lines 169-171.
CheckModel(t) ==
  /\ r_pc[t] = "ret" /\ kind[t] = "predict"
  /\ IF ModelMissing(t)
       THEN /\ result' = [result EXCEPT ![t] = <<"error", "Model not found">>]
            /\ r_pc' = [r_pc EXCEPT ![t] = "done"]
       ELSE /\ r_pc' = [r_pc EXCEPT ![t] = "L173"]
            /\ UNCHANGED result
  /\ UNCHANGED <<registry, preloaded, LOADED_MODEL, LOADED_MODEL_NAME, kind,
                 best_version_obj, ret_model, ret_name, scanned, reg_error,
                 began_cached, first_ok>>
  /\ UNCHANGED <<alert_vars, scan_vars, forecast_vars, aqi_vars,
                 twin_vars>>

\* make_prediction lines 173-267: the weather guard, the seed lookups (which
\* have no handler: a store error propagates) and the forecast.
Forecast(t, weather_ok, history_ok) ==
  /\ r_pc[t] = "L173"
  /\ result' = [result EXCEPT ![t] =
                  IF ~weather_ok THEN <<"error", "Weather Forecast API failed">>
                  ELSE IF ~history_ok THEN <<"raised", "">>
                  ELSE <<"forecast", ret_name[t]>>]
  /\ r_pc' = [r_pc EXCEPT ![t] = "done"]
  /\ UNCHANGED <<registry, preloaded, LOADED_MODEL, LOADED_MODEL_NAME, kind,
                 best_version_obj, ret_model, ret_name, scanned, reg_error,
                 began_cached, first_ok>>
  /\ UNCHANGED <<alert_vars, scan_vars, forecast_vars, aqi_vars,
                 twin_vars>>

\* api.py:23: the request is answered.
Respond(t) ==
  /\ r_pc[t] = "done"
  /\ ResetCall(t)
  /\ UNCHANGED <<registry, preloaded, LOADED_MODEL, LOADED_MODEL_NAME, first_ok>>
  /\ UNCHANGED <<alert_vars, scan_vars, forecast_vars, aqi_vars,
                 twin_vars>>

\* registry.py log_model_run: a training run registers the next version.
RegisterVersion(m) ==
  /\ Len(registry) < MaxRegistered
  /\ registry' = Append(registry, m)
  /\ UNCHANGED <<preloaded, LOADED_MODEL, LOADED_MODEL_NAME, r_pc, kind,
                 best_version_obj, ret_model, ret_name, result,
                 scanned, reg_error, began_cached, first_ok>>
  /\ UNCHANGED <<alert_vars, scan_vars, forecast_vars, aqi_vars,
                 twin_vars>>

ResolverInit ==
  /\ registry \in Registries
  /\ preloaded = FALSE
  /\ LOADED_MODEL = None
  /\ LOADED_MODEL_NAME = "Unknown"
  /\ r_pc = [t \in Threads |-> "idle"]
  /\ kind = [t \in Threads |-> "none"]
  /\ best_version_obj = [t \in Threads |-> None]
  /\ ret_model = [t \in Threads |-> None]
  /\ ret_name = [t \in Threads |-> ""]
  /\ result = [t \in Threads |-> <<"none", "">>]
  /\ scanned = [t \in Threads |-> FALSE]
  /\ reg_error = [t \in Threads |-> "none"]
  /\ began_cached = [t \in Threads |-> FALSE]
  /\ first_ok = None

ResolverNext ==
  \/ \E t \in Threads, k \in {"import", "predict"} : Enter(t, k)
  \/ \E t \in Threads : CheckCache(t)
  \/ \E t \in Threads : ReturnReadModel(t)
  \/ \E t \in Threads : ReturnReadName(t)
  \/ \E t \in Threads, client_ok, search_ok \in BOOLEAN :
        Scan(t, client_ok, search_ok)
  \/ \E t \in Threads, load_ok \in BOOLEAN : LoadModel(t, load_ok)
  \/ \E t \in Threads : SetName(t)
  \/ \E t \in Threads : PreloadDone(t)
  \/ \E t \in Threads : CheckModel(t)
  \/ \E t \in Threads, weather_ok, history_ok \in BOOLEAN :
        Forecast(t, weather_ok, history_ok)
  \/ \E t \in Threads : Respond(t)
  \/ \E m \in Metrics : RegisterVersion(m)

(***************************************************************************)
(* The scan loop of load_model_globally, one version per step              *)
(***************************************************************************)
ScanEntries == (1..MaxListed) \X (Metrics \cup {RunFails})

ScanListings ==
  {l \in UNION {[1..n -> ScanEntries] : n \in 0..MaxListed} :
     \A i, j \in DOMAIN l : i # j => version(l[i]) # version(l[j])}

\* Lines 85-105: the body of "for v in all_versions" for the next version.
ScanStep ==
  /\ s_i < Len(s_listing)
  /\ s_best' = ScanVisit(s_best, s_listing[s_i + 1])
  /\ s_i' = s_i + 1
  /\ UNCHANGED s_listing
  /\ UNCHANGED <<alert_vars, resolver_vars, forecast_vars, aqi_vars,
                 twin_vars>>

ScanInit ==
  /\ s_listing \in ScanListings
  /\ s_i = 0
  /\ s_best = ScanStart

(***************************************************************************)
(* One forecast run: inference/predict.py, make_prediction lines 173-267   *)
(***************************************************************************)
\* Fixed point unit of the AQI values of the loop: tenths of an AQI point
\* stay exact through the mean of up to six documents and through four
\* rounds of the 0.5 / 0.5 and 0.8 / 0.2 blends.
SCALE == 2400
DEFAULT_AQI == 150
N_POINTS == 4

Fixed(x) == x * SCALE
Tenths(x) == x * (SCALE \div 10)

\* Documents <<age in hours, aqi>> the historical collection may hold.
History == {<<2, 120>>, <<7, 110>>, <<30, 100>>, <<40, 130>>}
\* len(res['list']) of a weather response with cod "200".
WeatherLists == {0, 1, 9, 17, 40}
\* What model.predict may return, in tenths of an AQI point.
ModelOutputs == {505, 1250, 1300, 1306, 1350, 1400, 3006, 5120}

\* Lines 133-148: the points at indices 0, 8, 16, 24 that the list has;
\* lines 131 and 149-150: [] when cod is not "200" or anything raises.
get_weather_forecast(api_ok) ==
  IF api_ok
    THEN SelectSeq(<<0, 8, 16, 24>>, LAMBDA i : i < weather_list)
    ELSE <<>>

get_past_aqi_latest(hours_ago) ==
  IF collection = {}
    THEN Fixed(DEFAULT_AQI)
    ELSE Fixed((CHOOSE d \in collection :
                  \A e \in collection : d[1] <= e[1])[2])

\* Lines 152-158: the latest document dated at or before now - hours_ago,
\* 150.0 when there is none.
get_past_aqi(hours_ago) ==
  LET older == {d \in collection : d[1] >= hours_ago}
  IN  IF older = {}
        THEN Fixed(DEFAULT_AQI)
        ELSE Fixed((CHOOSE d \in older : \A e \in older : d[1] <= e[1])[2])

RECURSIVE SumAqi(_)
SumAqi(docs) ==
  IF docs = {} THEN 0
  ELSE LET d == CHOOSE x \in docs : TRUE
       IN  d[2] + SumAqi(docs \ {d})

ROLL_LIMIT == 24

\* Lines 160-163: the mean of the 24 latest documents, 150.0 when none.
get_rolling_mean ==
  LET values == {d \in collection :
                   Cardinality({e \in collection : e[1] < d[1]}) < ROLL_LIMIT}
  IN  IF values = {}
        THEN Fixed(DEFAULT_AQI)
        ELSE Fixed(SumAqi(values)) \div Cardinality(values)

Blend_swapped(pred, memory) == (2 * pred) \div 10 + (8 * memory) \div 10

\* Lines 208-209: last_pred_aqi * 0.8 + running_lag * 0.2.
Blend(pred, memory) == (8 * pred) \div 10 + (2 * memory) \div 10

\* Lines 245-246: running_lag * 0.5 + pred_val * 0.5.
Decay(memory, pred) == (5 * memory) \div 10 + (5 * pred) \div 10

RollFeature_dynamic ==
  IF last_pred_aqi = None THEN current_roll_mean ELSE last_pred_aqi[1]

\* Line 221: 'aqi_roll_mean_24': current_roll_mean.
RollFeature == current_roll_mean

\* Line 258: int(pred_val) drops the fraction, towards zero.
py_int(x) == IF x >= 0 THEN x \div SCALE ELSE -((-x) \div SCALE)

\* Lines 249-254: the label, from pred_val itself.
Desc(pred_val) ==
  IF pred_val > Fixed(300) THEN "Hazardous"
  ELSE IF pred_val > Fixed(200) THEN "Very Unhealthy"
  ELSE IF pred_val > Fixed(150) THEN "Unhealthy"
  ELSE IF pred_val > Fixed(100) THEN "Sensitive"
  ELSE IF pred_val > Fixed(50) THEN "Moderate"
  ELSE "Good"

\* Lines 173-175.
FetchWeather(api_ok) ==
  /\ f_pc = "L173"
  /\ forecasts' = get_weather_forecast(api_ok)
  /\ IF forecasts' = <<>>
       THEN /\ f_result' = <<"error", "Weather Forecast API failed">>
            /\ f_pc' = "done"
       ELSE /\ f_pc' = "L177"
            /\ UNCHANGED f_result
  /\ UNCHANGED <<collection, weather_list, current_lag_1, current_lag_6,
                 current_lag_24, current_roll_mean, last_pred_aqi,
                 running_lag_1, running_lag_6, fed, outputs, predictions>>
  /\ UNCHANGED <<alert_vars, resolver_vars, scan_vars, aqi_vars, twin_vars>>

\* Lines 177-191.  Neither lookup is inside a try: when the collection
\* cannot be queried the exception leaves make_prediction.
FetchSeeds(store_ok) ==
  /\ f_pc = "L177"
  /\ IF store_ok
       THEN /\ current_lag_1' = get_past_aqi(1)
            /\ current_lag_6' = get_past_aqi(6)
            /\ current_lag_24' = get_past_aqi(24)
            /\ current_roll_mean' = get_rolling_mean
            /\ last_pred_aqi' = None
            /\ running_lag_1' = current_lag_1'
            /\ running_lag_6' = current_lag_6'
            /\ f_pc' = "L193"
            /\ UNCHANGED f_result
       ELSE /\ f_result' = <<"raised", "">>
            /\ f_pc' = "done"
            /\ UNCHANGED <<current_lag_1, current_lag_6, current_lag_24,
                           current_roll_mean, last_pred_aqi, running_lag_1,
                           running_lag_6>>
  /\ UNCHANGED <<collection, weather_list, forecasts, fed, outputs,
                 predictions>>
  /\ UNCHANGED <<alert_vars, resolver_vars, scan_vars, aqi_vars, twin_vars>>

\* Lines 193-262: one pass of "for i, f in enumerate(forecasts)", the model
\* returning pred_val.
PredictStep(pred_val) ==
  /\ f_pc = "L193"
  /\ Len(predictions) < Len(forecasts)
  /\ LET first == last_pred_aqi = None
         used_lag_1 == IF first THEN running_lag_1
                       ELSE Blend(last_pred_aqi[1], running_lag_1)
         used_lag_6 == IF first THEN running_lag_6
                       ELSE Blend(last_pred_aqi[1], running_lag_6)
         used_lag_24 == IF first THEN current_lag_24 ELSE last_pred_aqi[1]
     IN  fed' = Append(fed, <<used_lag_1, used_lag_6, used_lag_24,
                              RollFeature>>)
  /\ outputs' = Append(outputs, pred_val)
  /\ last_pred_aqi' = <<pred_val>>
  /\ running_lag_1' = Decay(running_lag_1, pred_val)
  /\ running_lag_6' = Decay(running_lag_6, pred_val)
  /\ predictions' = Append(predictions,
                           [point |-> forecasts[Len(predictions) + 1],
                            aqi |-> py_int(pred_val),
                            desc |-> Desc(pred_val)])
  /\ UNCHANGED <<f_pc, collection, weather_list, forecasts, current_lag_1,
                 current_lag_6, current_lag_24, current_roll_mean, f_result>>
  /\ UNCHANGED <<alert_vars, resolver_vars, scan_vars, aqi_vars, twin_vars>>

\* Lines 264-267.
ReturnForecast ==
  /\ f_pc = "L193"
  /\ Len(predictions) = Len(forecasts)
  /\ f_result' = <<"forecast", "">>
  /\ f_pc' = "done"
  /\ UNCHANGED <<collection, weather_list, forecasts, current_lag_1,
                 current_lag_6, current_lag_24, current_roll_mean,
                 last_pred_aqi, running_lag_1, running_lag_6, fed, outputs,
                 predictions>>
  /\ UNCHANGED <<alert_vars, resolver_vars, scan_vars, aqi_vars, twin_vars>>

ForecastInit ==
  /\ f_pc = "L173"
  /\ collection \in SUBSET History
  /\ weather_list \in WeatherLists
  /\ forecasts = <<>>
  /\ current_lag_1 = 0 /\ current_lag_6 = 0 /\ current_lag_24 = 0
  /\ current_roll_mean = 0
  /\ last_pred_aqi = None
  /\ running_lag_1 = 0 /\ running_lag_6 = 0
  /\ fed = <<>> /\ outputs = <<>> /\ predictions = <<>>
  /\ f_result = <<"none", "">>

\* api.py lines 22-23: predict hands back what make_prediction returned (or
\* lets its exception through) and the request is over.  Neither function
\* calls check_and_alert; no module of the repository imports
\* alerts/notification.py.
ApiPredictReturn ==
  /\ f_pc = "done"
  /\ f_pc' = "returned"
  /\ UNCHANGED <<collection, weather_list, forecasts, current_lag_1,
                 current_lag_6, current_lag_24, current_roll_mean,
                 last_pred_aqi, running_lag_1, running_lag_6, fed, outputs,
                 predictions, f_result>>
  /\ UNCHANGED <<alert_vars, resolver_vars, scan_vars, aqi_vars, twin_vars>>

ForecastNext ==
  \/ \E api_ok \in BOOLEAN : FetchWeather(api_ok)
  \/ \E store_ok \in BOOLEAN : FetchSeeds(store_ok)
  \/ \E pred_val \in ModelOutputs : PredictStep(Tenths(pred_val))
  \/ ReturnForecast
  \/ ApiPredictReturn

(***************************************************************************)
(* AQI calculator: features/preprocessing.py, calculate_aqi_us             *)
(***************************************************************************)
\* Lines 27-35, (c_low, c_high, i_low, i_high), concentrations in hundredths.
pm25_breakpoints ==
  << <<0, 1200, 0, 50>>, <<1210, 3540, 51, 100>>, <<3550, 5540, 101, 150>>,
     <<5550, 15040, 151, 200>>, <<15050, 25040, 201, 300>>,
     <<25050, 35040, 301, 400>>, <<35050, 50040, 401, 500>> >>

\* Lines 38-46.
pm10_breakpoints ==
  << <<0, 5400, 0, 50>>, <<5500, 15400, 51, 100>>, <<15500, 25400, 101, 150>>,
     <<25500, 35400, 151, 200>>, <<35500, 42400, 201, 300>>,
     <<42500, 50400, 301, 400>>, <<50500, 60400, 401, 500>> >>

\* Line 24: the value returned when no bracket holds the concentration.
CAP == 500

\* An index is a mixed fraction <<whole, rest, denominator>> standing for
\* whole + rest / denominator, with 0 <= rest < denominator.
Whole(n) == <<n, 0, 1>>
Less(x, y) ==
  \/ x[1] < y[1]
  \/ x[1] = y[1] /\ x[2] * y[3] < y[2] * x[3]
Same(x, y) == x[1] = y[1] /\ x[2] * y[3] = y[2] * x[3]

InBracket_halfOpen(conc, b) == b[1] <= conc /\ conc < b[2]

\* Line 21: c_low <= conc <= c_high.
InBracket(conc, b) == b[1] <= conc /\ conc <= b[2]

\* Line 22: ((i_high - i_low) / (c_high - c_low)) * (conc - c_low) + i_low.
Interpolate(conc, b) ==
  LET rise == (b[4] - b[3]) * (conc - b[1])
      run == b[2] - b[1]
  IN  <<b[3] + rise \div run, rise % run, run>>

calc_pollutant_aqi_extrapolate(conc, breakpoints) ==
  LET hits == {k \in DOMAIN breakpoints : InBracket(conc, breakpoints[k])}
  IN  IF hits = {}
        THEN Interpolate(conc, breakpoints[Len(breakpoints)])
        ELSE Interpolate(conc, breakpoints[CHOOSE k \in hits :
                                             \A j \in hits : k <= j])

\* Lines 19-24: the first bracket that holds conc, else 500.
calc_pollutant_aqi(conc, breakpoints) ==
  LET hits == {k \in DOMAIN breakpoints : InBracket(conc, breakpoints[k])}
  IN  IF hits = {}
        THEN Whole(CAP)
        ELSE Interpolate(conc, breakpoints[CHOOSE k \in hits :
                                             \A j \in hits : k <= j])

py_max_first(x, y) == x

\* Line 52: max(aqi_25, aqi_10); Python's max keeps the first of two equals.
py_max(x, y) == IF Less(x, y) THEN y ELSE x

\* Concentrations tried for a table: below zero, the ends and the middle of
\* every bracket, the middle of every gap between two brackets, and two
\* values above the table.
Samples(breakpoints) ==
  LET n == Len(breakpoints)
  IN  {-100, breakpoints[n][2] + 1, breakpoints[n][2] + 100}
      \cup UNION {{breakpoints[k][1], breakpoints[k][2],
                   (breakpoints[k][1] + breakpoints[k][2]) \div 2} :
                  k \in 1..n}
      \cup {(breakpoints[k][2] + breakpoints[k + 1][1]) \div 2 :
              k \in 1..(n - 1)}

\* Lines 48-52, for the first row.
Calculate ==
  /\ q_pc = "input"
  /\ aqi_25' = calc_pollutant_aqi(pm2_5, pm25_breakpoints)
  /\ aqi_10' = calc_pollutant_aqi(pm10, pm10_breakpoints)
  /\ q_aqi' = py_max(aqi_25', aqi_10')
  /\ q_pc' = "done"
  /\ UNCHANGED <<pm2_5, pm10, q_prev>>
  /\ UNCHANGED <<alert_vars, resolver_vars, scan_vars, forecast_vars,
                 twin_vars>>

\* Line 89 applies calculate_aqi_us to every row: the next row, which has
\* one pollutant at a higher concentration than the row before.
NextRow(pollutant, conc) ==
  /\ q_pc = "done"
  /\ IF pollutant = "pm2_5"
       THEN /\ conc > pm2_5
            /\ q_prev' = <<pollutant, pm2_5, aqi_25, q_aqi>>
            /\ pm2_5' = conc
            /\ UNCHANGED pm10
       ELSE /\ conc > pm10
            /\ q_prev' = <<pollutant, pm10, aqi_10, q_aqi>>
            /\ pm10' = conc
            /\ UNCHANGED pm2_5
  /\ aqi_25' = calc_pollutant_aqi(pm2_5', pm25_breakpoints)
  /\ aqi_10' = calc_pollutant_aqi(pm10', pm10_breakpoints)
  /\ q_aqi' = py_max(aqi_25', aqi_10')
  /\ UNCHANGED q_pc
  /\ UNCHANGED <<alert_vars, resolver_vars, scan_vars, forecast_vars,
                 twin_vars>>

AqiInit ==
  /\ q_pc = "input"
  /\ pm2_5 \in Samples(pm25_breakpoints)
  /\ pm10 \in Samples(pm10_breakpoints)
  /\ aqi_25 = Whole(0) /\ aqi_10 = Whole(0) /\ q_aqi = Whole(0)
  /\ q_prev = None

AqiNext ==
  \/ Calculate
  \/ \E conc \in Samples(pm25_breakpoints) : NextRow("pm2_5", conc)
  \/ \E conc \in Samples(pm10_breakpoints) : NextRow("pm10", conc)

(***************************************************************************)
(* Two runs of the forecast loop: inference/predict.py lines 183-262       *)
(***************************************************************************)
Runs == {1, 2}

\* <<current_lag_1, current_lag_6, current_lag_24, current_roll_mean>>.
SeedStates ==
  {<<Fixed(120), Fixed(110), Fixed(100), Fixed(115)>>,
   <<Fixed(135), Fixed(120), Fixed(150), Fixed(125)>>,
   <<Fixed(DEFAULT_AQI), Fixed(DEFAULT_AQI), Fixed(DEFAULT_AQI),
     Fixed(DEFAULT_AQI)>>}

\* Lines 28-32.
TRAINING_FEATURES ==
  <<"clouds", "day", "day_of_week", "hour", "humidity", "month", "pressure",
    "temperature", "wind_direction", "wind_speed", "aqi_lag_1", "aqi_lag_6",
    "aqi_lag_24", "aqi_roll_mean_24", "hour_sin", "hour_cos", "month_sin",
    "month_cos", "wind_sin", "wind_cos">>

\* Lines 211-232: the keys of data in the order the dict literal lists them.
DATA_KEYS ==
  <<"temperature", "humidity", "pressure", "wind_speed", "wind_direction",
    "clouds", "aqi_lag_1", "aqi_lag_6", "aqi_lag_24", "aqi_roll_mean_24",
    "hour", "day", "month", "day_of_week", "hour_sin", "hour_cos",
    "month_sin", "month_cos", "wind_sin", "wind_cos">>

\* Lines 211-232: data.  Every feature taken from the weather point f is
\* written as f itself.
Data(f, used_lag_1, used_lag_6, used_lag_24, roll_mean) ==
  [k \in {DATA_KEYS[i] : i \in DOMAIN DATA_KEYS} |->
     IF k = "aqi_lag_1" THEN used_lag_1
     ELSE IF k = "aqi_lag_6" THEN used_lag_6
     ELSE IF k = "aqi_lag_24" THEN used_lag_24
     ELSE IF k = "aqi_roll_mean_24" THEN roll_mean
     ELSE f]

FeatureVector_dictOrder(data) ==
  [i \in DOMAIN DATA_KEYS |-> data[DATA_KEYS[i]]]

\* Lines 234-235: df = pd.DataFrame([data]); df = df[TRAINING_FEATURES].
FeatureVector(data) ==
  [i \in DOMAIN TRAINING_FEATURES |-> data[TRAINING_FEATURES[i]]]

\* The column of a feature in the frame the model was trained on.
Column(name) == CHOOSE i \in DOMAIN TRAINING_FEATURES : TRAINING_FEATURES[i] = name

\* Deterministic models, each a function of the feature row.
ModelFns == {"flat", "byLag1", "byLag24", "byPoint"}

\* Line 238: float(model.predict(df)[0]).
ApplyModel(m, x) ==
  IF m = "flat" THEN Tenths(1300)
  ELSE IF m = "byLag1"
    THEN IF x[Column("aqi_lag_1")] >= Fixed(130)
           THEN Tenths(1350) ELSE Tenths(1306)
  ELSE IF m = "byLag24"
    THEN IF x[Column("aqi_lag_24")] > Fixed(120)
           THEN Tenths(1250) ELSE Tenths(1400)
  ELSE Tenths(1250 + x[Column("clouds")])

PrevPrediction_shared(r) == t_last_pred_aqi[1]

\* Lines 186, 241: last_pred_aqi is a local of the call.
PrevPrediction(r) == t_last_pred_aqi[r]

\* Lines 193-262 for run r: one pass of the loop.
TwinStep(r) ==
  /\ Len(t_predictions[r]) < Len(t_forecasts)
  /\ LET f == t_forecasts[Len(t_predictions[r]) + 1]
         last == PrevPrediction(r)
         first == last = None
         used_lag_1 == IF first THEN t_running_lag_1[r]
                       ELSE Blend(last[1], t_running_lag_1[r])
         used_lag_6 == IF first THEN t_running_lag_6[r]
                       ELSE Blend(last[1], t_running_lag_6[r])
         used_lag_24 == IF first THEN t_seed[3] ELSE last[1]
         df == FeatureVector(Data(f, used_lag_1, used_lag_6, used_lag_24,
                                  t_seed[4]))
         pred_val == ApplyModel(t_model, df)
     IN  /\ t_fed' = [t_fed EXCEPT ![r] = Append(@, df)]
         /\ t_last_pred_aqi' = [t_last_pred_aqi EXCEPT ![r] = <<pred_val>>]
         /\ t_running_lag_1' =
              [t_running_lag_1 EXCEPT ![r] = Decay(@, pred_val)]
         /\ t_running_lag_6' =
              [t_running_lag_6 EXCEPT ![r] = Decay(@, pred_val)]
         /\ t_predictions' =
              [t_predictions EXCEPT ![r] =
                 Append(@, [point |-> f, aqi |-> py_int(pred_val),
                            desc |-> Desc(pred_val)])]
  /\ UNCHANGED <<t_model, t_seed, t_forecasts>>
  /\ UNCHANGED <<alert_vars, resolver_vars, scan_vars, forecast_vars,
                 aqi_vars>>

\* Lines 183-191 of both runs, on the same inputs.
TwinInit ==
  /\ t_model \in ModelFns
  /\ t_seed \in SeedStates
  /\ t_forecasts \in {SubSeq(<<0, 8, 16, 24>>, 1, n) : n \in 1..N_POINTS}
  /\ t_last_pred_aqi = [r \in Runs |-> None]
  /\ t_running_lag_1 = [r \in Runs |-> t_seed[1]]
  /\ t_running_lag_6 = [r \in Runs |-> t_seed[2]]
  /\ t_fed = [r \in Runs |-> <<>>]
  /\ t_predictions = [r \in Runs |-> <<>>]

TwinNext == \E r \in Runs : TwinStep(r)

(***************************************************************************)
(* Specifications                                                          *)
(***************************************************************************)
AlertIdle ==
  /\ now = 0 /\ API_KEY = TRUE /\ alert_log = None
  /\ a_pc = [p \in Procs |-> "idle"]
  /\ aqi = [p \in Procs |-> 0]
  /\ last_sent = [p \in Procs |-> None]
  /\ hours_passed = [p \in Procs |-> 0]
  /\ stored_age = [p \in Procs |-> None]
  /\ response = [p \in Procs |-> "none"]
  /\ a_out = [p \in Procs |-> "none"]
  /\ sent_at = None

ResolverIdle ==
  /\ registry = <<>>
  /\ preloaded = FALSE
  /\ LOADED_MODEL = None
  /\ LOADED_MODEL_NAME = "Unknown"
  /\ r_pc = [t \in Threads |-> "idle"]
  /\ kind = [t \in Threads |-> "none"]
  /\ best_version_obj = [t \in Threads |-> None]
  /\ ret_model = [t \in Threads |-> None]
  /\ ret_name = [t \in Threads |-> ""]
  /\ result = [t \in Threads |-> <<"none", "">>]
  /\ scanned = [t \in Threads |-> FALSE]
  /\ reg_error = [t \in Threads |-> "none"]
  /\ began_cached = [t \in Threads |-> FALSE]
  /\ first_ok = None

ScanIdle == s_listing = <<>> /\ s_i = 0 /\ s_best = ScanStart

ForecastIdle ==
  /\ f_pc = "idle"
  /\ collection = {}
  /\ weather_list = 0
  /\ forecasts = <<>>
  /\ current_lag_1 = 0 /\ current_lag_6 = 0 /\ current_lag_24 = 0
  /\ current_roll_mean = 0
  /\ last_pred_aqi = None
  /\ running_lag_1 = 0 /\ running_lag_6 = 0
  /\ fed = <<>> /\ outputs = <<>> /\ predictions = <<>>
  /\ f_result = <<"none", "">>

AqiIdle ==
  /\ q_pc = "idle"
  /\ pm2_5 = 0 /\ pm10 = 0
  /\ aqi_25 = Whole(0) /\ aqi_10 = Whole(0) /\ q_aqi = Whole(0)
  /\ q_prev = None

TwinIdle ==
  /\ t_model = "flat"
  /\ t_seed = <<0, 0, 0, 0>>
  /\ t_forecasts = <<>>
  /\ t_last_pred_aqi = [r \in Runs |-> None]
  /\ t_running_lag_1 = [r \in Runs |-> 0]
  /\ t_running_lag_6 = [r \in Runs |-> 0]
  /\ t_fed = [r \in Runs |-> <<>>]
  /\ t_predictions = [r \in Runs |-> <<>>]

AlertSpecInit ==
  /\ AlertInit
  /\ ResolverIdle /\ ScanIdle /\ ForecastIdle /\ AqiIdle /\ TwinIdle
ResolverSpecInit ==
  /\ ResolverInit
  /\ AlertIdle /\ ScanIdle /\ ForecastIdle /\ AqiIdle /\ TwinIdle
ScanSpecInit ==
  /\ ScanInit
  /\ AlertIdle /\ ResolverIdle /\ ForecastIdle /\ AqiIdle /\ TwinIdle
ForecastSpecInit ==
  /\ ForecastInit
  /\ AlertIdle /\ ResolverIdle /\ ScanIdle /\ AqiIdle /\ TwinIdle
AqiSpecInit ==
  /\ AqiInit
  /\ AlertIdle /\ ResolverIdle /\ ScanIdle /\ ForecastIdle /\ TwinIdle
TwinSpecInit ==
  /\ TwinInit
  /\ AlertIdle /\ ResolverIdle /\ ScanIdle /\ ForecastIdle /\ AqiIdle

ScanNext == ScanStep

\* check_and_alert called again and again by one caller, each call after
\* the one before has returned.
SeqAlertNext ==
  \/ \E a \in AqiInputs : CheckThreshold(1, a)
  \/ \E db_ok \in BOOLEAN : CheckCooldown(1, db_ok)
  \/ \E resp \in Responses : SendAlertEmail(1, resp)
  \/ \E db_ok \in BOOLEAN : CommitAlertTime(1, db_ok)
  \/ AlertReturn(1)
  \/ Tick

AlertSpec == AlertSpecInit /\ [][AlertNext]_vars
SeqAlertSpec == AlertSpecInit /\ [][SeqAlertNext]_vars
ResolverSpec == ResolverSpecInit /\ [][ResolverNext]_vars
ScanSpec == ScanSpecInit /\ [][ScanNext]_vars
ForecastSpec == ForecastSpecInit /\ [][ForecastNext]_vars
AqiSpec == AqiSpecInit /\ [][AqiNext]_vars
TwinSpec == TwinSpecInit /\ [][TwinNext]_vars

(***************************************************************************)
(* Alert throttle: properties (AlertSpec)                                  *)
(***************************************************************************)
\* requests.post was called in this call of check_and_alert.
Attempted(p) == a_out[p] \in {"sent", "failed"}

\* C1 as stated: a finished check has attempted a send exactly when aqi > 300
\* and the alert log held no timestamp or one at least 6 hours old.
C1_DispatchIffStored ==
  \A p \in Procs :
    a_pc[p] = "done" =>
      (Attempted(p) <=>
         /\ aqi[p] > ALERT_THRESHOLD
         /\ (stored_age[p] = None \/ stored_age[p][1] >= COOLDOWN_HOURS))

\* C1 amended: a finished check has attempted a send exactly when aqi > 300,
\* the API key is configured, and the read of the alert log returned no
\* timestamp (none stored, or the read failed) or one at least 6 hours old;
\* a timestamp that was returned is the stored one.
C1_DispatchIffRead ==
  \A p \in Procs :
    a_pc[p] = "done" =>
      /\ (Attempted(p) <=>
            /\ aqi[p] > ALERT_THRESHOLD
            /\ API_KEY
            /\ (last_sent[p] = None \/ hours_passed[p] >= COOLDOWN_HOURS))
      /\ (last_sent[p] # None => stored_age[p] = <<hours_passed[p]>>)

\* A check with aqi 301 whose prior alert is exactly 6 hours old has sent.
C1_Witness ==
  \E p \in Procs :
    /\ a_pc[p] = "done" /\ a_out[p] = "sent" /\ aqi[p] = 301
    /\ last_sent[p] # None /\ hours_passed[p] = COOLDOWN_HOURS

\* C2: the alert log changes only in the step that follows a send answered
\* 201; the step in which a send fails leaves the log unchanged; and after a
\* failed send, with the log still as the failing call read it, a check is
\* not suppressed by the cooldown.
C2_LogWrittenOnlyAfterSuccess ==
  (alert_log' # alert_log) =>
     \E q \in Procs : /\ a_pc[q] = "L100" /\ response[q] = "201"
                      /\ a_pc'[q] = "done"

C2_FailedSendKeepsLog ==
  \A p \in Procs :
    (a_pc[p] = "L132" /\ a_out'[p] = "failed") =>
       /\ alert_log' = alert_log
       /\ a_pc'[p] = "done"

C2_RetryNotSuppressed ==
  \A p \in Procs :
    (a_pc[p] = "done" /\ a_out[p] = "failed" /\ last_sent[p] = alert_log) =>
       ~InCooldown(alert_log)

C2_SendThenCommit ==
  /\ [][C2_LogWrittenOnlyAfterSuccess /\ C2_FailedSendKeepsLog]_vars
  /\ []C2_RetryNotSuppressed

\* A send has failed after the check read a stored timestamp, and the log
\* still holds that timestamp.
C2_Witness ==
  \E p \in Procs :
    /\ a_pc[p] = "done" /\ a_out[p] = "failed"
    /\ response[p] \in {"other", "exception"}
    /\ last_sent[p] # None /\ alert_log = last_sent[p]

\* C3: two callers are never both past a successful send of an alert decided
\* on the same state of the alert log (neither has written the log yet).
C3_AtMostOneDispatch ==
  \A p, q \in Procs :
    (/\ p # q
     /\ a_pc[p] = "L100" /\ response[p] = "201" /\ last_sent[p] = alert_log
     /\ a_pc[q] = "L100" /\ response[q] = "201" /\ last_sent[q] = alert_log)
    => FALSE

(***************************************************************************)
(* Model resolver: properties (ResolverSpec, ScanSpec)                     *)
(***************************************************************************)
\* A thread at "L69" is running the registry scan (lines 66-109), one at
\* "L115" the model load; the step out of either is its completion.
Resolving(t) == r_pc[t] \in {"L69", "L115"}

\* load_model_globally has returned to its caller.
Returned(t) == r_pc[t] \in {"ret", "L173", "done"}

\* C4: no two threads are scanning the registry or loading a model at the
\* same time.
C4_SingleFlight ==
  \A t, u \in Threads : (t # u /\ Resolving(t)) => ~Resolving(u)

\* C5: a call that began after a call had succeeded returns the handle and
\* the name that first successful call returned, and has run no scan.
C5_Memoized ==
  \A t \in Threads :
    (Returned(t) /\ began_cached[t]) =>
       /\ <<ret_model[t], ret_name[t]>> = first_ok
       /\ ~scanned[t]

\* C6: the step in which a call returns no model writes neither global; a
\* call that has returned no model has not put a handle in the cache; and a
\* call goes on to scan exactly when it finds the cache empty at line 63.
C6_FailureWritesNothing ==
  \A t \in Threads :
    (r_pc[t] # "ret" /\ r_pc'[t] = "ret" /\ ret_model'[t] = None) =>
       /\ LOADED_MODEL' = LOADED_MODEL
       /\ LOADED_MODEL_NAME' = LOADED_MODEL_NAME

C6_EmptyCacheScans ==
  \A t \in Threads :
    (r_pc[t] = "L63" /\ r_pc'[t] # "L63") =>
       (r_pc'[t] = "L69" <=> LOADED_MODEL = None)

C6_FailedCallCachedNothing ==
  \A t \in Threads :
    (Returned(t) /\ ret_model[t] = None /\ LOADED_MODEL # None) =>
       LOADED_MODEL[2] # t

C6_FailureNotCached ==
  /\ [][C6_FailureWritesNothing /\ C6_EmptyCacheScans]_vars
  /\ []C6_FailedCallCachedNothing

\* After the preload failed (a request scans only if it did), a request has
\* scanned, loaded a model and returned it, and the cache holds it.
C6_Witness ==
  \E t \in Threads :
    /\ kind[t] = "predict" /\ scanned[t] /\ r_pc[t] = "ret"
    /\ ret_model[t] # None /\ LOADED_MODEL = ret_model[t]

\* The metric of registered version n lies in [15.50, 15.55].
Qualifies(n) == n \in DOMAIN registry /\ registry[n] \in 1550..1555

\* C7: a version the scan selected, a cached handle and a returned handle
\* are each of a registered version whose metric lies in [15.50, 15.55].
C7_SelectedInRange ==
  /\ LOADED_MODEL # None => Qualifies(LOADED_MODEL[1])
  /\ \A t \in Threads :
       /\ best_version_obj[t] # None => Qualifies(version(best_version_obj[t]))
       /\ ret_model[t] # None => Qualifies(ret_model[t][1])

\* A model is cached while the registry holds a version with a lower metric,
\* 15.49, and one with 15.56.
C7_Witness ==
  /\ LOADED_MODEL # None
  /\ \E n \in DOMAIN registry : registry[n] = 1549 /\ n # LOADED_MODEL[1]

\* The readable versions of a listing whose metric lies in [15.50, 15.55].
Candidates(l) ==
  {l[i] : i \in {j \in DOMAIN l : mae_of(l[j]) \in 1550..1555}}

\* C8: when the loop has visited the whole listing, best_version_obj is None
\* if no version is a candidate, and else the candidate of least metric and,
\* among those, of highest version number.
C8_MinMetricHighestVersion ==
  s_i = Len(s_listing) =>
    IF Candidates(s_listing) = {}
      THEN s_best[2] = None
      ELSE /\ s_best[2] \in Candidates(s_listing)
           /\ s_best[1] = mae_of(s_best[2])
           /\ \A c \in Candidates(s_listing) :
                \/ mae_of(s_best[2]) < mae_of(c)
                \/ /\ mae_of(s_best[2]) = mae_of(c)
                   /\ version(s_best[2]) >= version(c)

\* A finished scan of a listing in which two candidates tie on the least
\* metric and the higher version comes last.
C8_Witness ==
  /\ s_i = Len(s_listing)
  /\ \E i, j \in DOMAIN s_listing :
       /\ i < j
       /\ s_listing[i] \in Candidates(s_listing)
       /\ s_listing[j] \in Candidates(s_listing)
       /\ mae_of(s_listing[i]) = mae_of(s_listing[j])
       /\ version(s_listing[i]) < version(s_listing[j])
       /\ s_best[2] = s_listing[j]

\* No registered version satisfies the selection policy.
NoneQualifies == \A n \in DOMAIN registry : ~Qualifies(n)

\* C9: while no registered version has its metric in the range, nothing is
\* cached, no thread loads a model or holds a handle, a call that returned
\* returned None with "No Model" or "Error", and make_prediction returned
\* the error "Model not found".
C9_NoModelFound ==
  NoneQualifies =>
    /\ LOADED_MODEL = None /\ LOADED_MODEL_NAME = "Unknown"
    /\ \A t \in Threads :
         /\ r_pc[t] \notin {"L64", "name", "L115", "L116", "L118", "L173"}
         /\ best_version_obj[t] = None
         /\ Returned(t) =>
              ret_model[t] = None /\ ret_name[t] \in {"No Model", "Error"}
         /\ r_pc[t] = "done" => result[t] = <<"error", "Model not found">>

\* A request that scanned a registry with versions, none in range, has
\* returned the error.
C9_Witness ==
  /\ NoneQualifies /\ registry # <<>>
  /\ \E t \in Threads :
       /\ r_pc[t] = "done" /\ scanned[t] /\ reg_error[t] = "none"
       /\ ret_name[t] = "No Model"
       /\ result[t] = <<"error", "Model not found">>

\* C10: a call in which creating the client, listing the versions or loading
\* the model failed does not raise; it returns None with "Error" or "No
\* Model", and make_prediction returns the error "Model not found".
C10_RegistryFailureDegrades ==
  \A t \in Threads :
    /\ r_pc[t] # "raised"
    /\ reg_error[t] # "none" =>
         /\ Returned(t) /\ r_pc[t] # "L173"
         /\ ret_model[t] = None
         /\ ret_name[t] = (IF reg_error[t] = "search" THEN "No Model" ELSE "Error")
         /\ r_pc[t] = "done" => result[t] = <<"error", "Model not found">>

\* A request whose model load failed has returned the error.
C10_Witness ==
  \E t \in Threads :
    /\ kind[t] = "predict" /\ reg_error[t] = "load" /\ r_pc[t] = "done"
    /\ result[t] = <<"error", "Model not found">>

(***************************************************************************)
(* Forecast run: properties (ForecastSpec)                                 *)
(***************************************************************************)
\* The history seeds have been read in this run.
Seeded == f_pc = "L193" \/ f_result[1] = "forecast"

\* The decayed memory after k predictions, by the stated rule: it starts at
\* the seed and every prediction replaces it by the mean of itself and the
\* raw prediction.
RECURSIVE Memory(_, _)
Memory(seed, k) ==
  IF k = 0 THEN seed ELSE (Memory(seed, k - 1) + outputs[k]) \div 2

C12_SeedsVerbatim ==
  /\ fed # <<>> =>
       SubSeq(fed[1], 1, 3) = <<current_lag_1, current_lag_6, current_lag_24>>
  /\ \A i \in DOMAIN fed : fed[i][4] = current_roll_mean

C12_Witness ==
  /\ f_result[1] = "forecast"
  /\ Len(fed) = N_POINTS
  /\ collection = History
  /\ fed[1] = <<Fixed(120), Fixed(110), Fixed(100), Fixed(115)>>
  /\ \A i \in DOMAIN outputs : outputs[i] # current_roll_mean
  /\ fed[N_POINTS][4] = Fixed(115)

\* C13: a run that ends without raising returns the full N_POINTS
\* predictions when the weather fetch gave N_POINTS points, and the weather
\* error otherwise; it never returns fewer predictions.
C13_FullLengthOrError ==
  (f_pc = "done" /\ f_result[1] # "raised") =>
    IF Len(forecasts) = N_POINTS
      THEN f_result[1] = "forecast" /\ Len(predictions) = N_POINTS
      ELSE f_result = <<"error", "Weather Forecast API failed">>

\* C14: a seed whose lookup finds no observation at or before its lag time
\* is 150, the rolling mean of an empty history is 150, and the run goes on
\* to return a prediction for every weather point.
C14_DefaultSeeds ==
  Seeded =>
    /\ (\A d \in collection : d[1] < 1) => current_lag_1 = Fixed(DEFAULT_AQI)
    /\ (\A d \in collection : d[1] < 6) => current_lag_6 = Fixed(DEFAULT_AQI)
    /\ (\A d \in collection : d[1] < 24) =>
         current_lag_24 = Fixed(DEFAULT_AQI)
    /\ collection = {} => current_roll_mean = Fixed(DEFAULT_AQI)
    /\ f_pc = "done" =>
         /\ f_result[1] = "forecast"
         /\ Len(predictions) = Len(forecasts)
         /\ predictions # <<>>

C14_Witness ==
  /\ f_result[1] = "forecast"
  /\ collection = {<<2, 120>>}
  /\ current_lag_1 = Fixed(120)
  /\ current_lag_6 = Fixed(DEFAULT_AQI)
  /\ current_lag_24 = Fixed(DEFAULT_AQI)
  /\ Len(predictions) = N_POINTS

\* C15: no failure of the history store leaves make_prediction as an
\* exception: a run that got weather points returns predictions.
C15_StoreFailureNonFatal ==
  f_pc = "done" =>
    /\ f_result[1] # "raised"
    /\ forecasts # <<>> => f_result[1] = "forecast"

\* The band of an integer AQI with inclusive upper bounds, in the labels
\* make_prediction uses.
BandOf(a) ==
  IF a <= 50 THEN "Good"
  ELSE IF a <= 100 THEN "Moderate"
  ELSE IF a <= 150 THEN "Sensitive"
  ELSE IF a <= 200 THEN "Unhealthy"
  ELSE IF a <= 300 THEN "Very Unhealthy"
  ELSE "Hazardous"

\* C16: the label of every prediction is the band of the integer AQI that
\* the same prediction reports.
C16_DescIsBandOfReportedAqi ==
  \A i \in DOMAIN predictions : predictions[i].desc = BandOf(predictions[i].aqi)

\* C17: the reported AQI is an integer nearest to the model's output (either
\* neighbour at a tie).
C17_RoundedToNearest ==
  \A i \in DOMAIN predictions :
    LET diff == Fixed(predictions[i].aqi) - outputs[i]
    IN  2 * diff <= SCALE /\ 2 * diff >= -SCALE

(***************************************************************************)
(* AQI calculator: properties (AqiSpec)                                    *)
(***************************************************************************)
\* C18: for non-negative concentrations calculate_aqi_us returns a value
\* from 0 to 500.
C18_WithinRange ==
  (q_pc = "done" /\ pm2_5 >= 0 /\ pm10 >= 0) =>
    /\ ~Less(q_aqi, Whole(0))
    /\ ~Less(Whole(500), q_aqi)

C18_Witness ==
  /\ q_pc = "done"
  /\ pm2_5 > pm25_breakpoints[Len(pm25_breakpoints)][2]
  /\ pm10 > pm10_breakpoints[Len(pm10_breakpoints)][2]
  /\ Same(q_aqi, Whole(500))

\* The lowest and highest bound of a pollutant's table.
TableOf(pollutant) ==
  IF pollutant = "pm2_5" THEN pm25_breakpoints ELSE pm10_breakpoints
WithinTable(pollutant, conc) ==
  /\ TableOf(pollutant)[1][1] <= conc
  /\ conc <= TableOf(pollutant)[Len(TableOf(pollutant))][2]

\* C19: raising one pollutant's concentration, both values between the
\* lowest and the highest bound of its table, never lowers its sub-index,
\* and so never lowers the result of calculate_aqi_us.
C19_SubIndexMonotone ==
  (q_prev # None /\ WithinTable(q_prev[1], q_prev[2])
     /\ WithinTable(q_prev[1], IF q_prev[1] = "pm2_5" THEN pm2_5 ELSE pm10)) =>
    /\ ~Less(IF q_prev[1] = "pm2_5" THEN aqi_25 ELSE aqi_10, q_prev[3])
    /\ ~Less(q_aqi, q_prev[4])

\* C20: calculate_aqi_us(0, 0) = 0, calculate_aqi_us(12.0, 0) = 50, and a
\* pm2.5 of 500.4 or more with a pm10 inside its table gives 500.
C20_Anchors ==
  q_pc = "done" =>
    /\ (pm2_5 = 0 /\ pm10 = 0) => Same(q_aqi, Whole(0))
    /\ (pm2_5 = 1200 /\ pm10 = 0) => Same(q_aqi, Whole(50))
    /\ (pm2_5 >= 50040 /\ WithinTable("pm10", pm10)) =>
         Same(q_aqi, Whole(500))

C20_Witness ==
  /\ q_pc = "done"
  /\ pm2_5 = 1200
  /\ pm10 = 0
  /\ Same(q_aqi, Whole(50))

\* C21: the result of calculate_aqi_us is the larger of the pm2.5 sub-index,
\* computed from the pm2.5 table and pm2_5 alone, and the pm10 sub-index,
\* computed from the pm10 table and pm10 alone.
C21_MaxOfSubIndices ==
  q_pc = "done" =>
    /\ aqi_25 = calc_pollutant_aqi(pm2_5, pm25_breakpoints)
    /\ aqi_10 = calc_pollutant_aqi(pm10, pm10_breakpoints)
    /\ ~Less(q_aqi, aqi_25)
    /\ ~Less(q_aqi, aqi_10)
    /\ Same(q_aqi, aqi_25) \/ Same(q_aqi, aqi_10)

\* The pm10 sub-index is the larger one and is the result.
C21_Witness ==
  /\ q_pc = "done"
  /\ q_prev # None
  /\ Less(aqi_25, aqi_10)
  /\ Same(q_aqi, aqi_10)
  /\ ~Same(q_aqi, aqi_25)

\* check_and_alert has been entered by some caller.
AlertChecked == \E p \in Procs : a_pc[p] # "idle" \/ a_out[p] # "none"

\* C22: when the request that ran a forecast with predictions is over,
\* check_and_alert has been called on one of its predictions.
C22_ForecastReachesThrottle ==
  (f_pc = "returned" /\ f_result[1] = "forecast") => AlertChecked

\* How a finished call ended, as the caller would need to know it.
OutcomeClass(out) ==
  IF out = "sent" THEN "sent"
  ELSE IF out = "failed" THEN "failed"
  ELSE "not sent"

\* C23: two finished calls of check_and_alert that ended differently (send
\* succeeded, send failed, no send) returned different values.
C23_OutcomeSurfaced ==
  \A p, q \in Procs :
    (a_pc[p] = "done" /\ a_pc[q] = "done"
       /\ OutcomeClass(a_out[p]) # OutcomeClass(a_out[q])) =>
      check_and_alert_returns(a_out[p]) # check_and_alert_returns(a_out[q])

C26_OncePerPointInOrder ==
  \A r \in Runs :
    /\ Len(t_fed[r]) = Len(t_predictions[r])
    /\ Len(t_predictions[r]) <= Len(t_forecasts)
    /\ \A k \in DOMAIN t_predictions[r] :
         /\ t_predictions[r][k].point = t_forecasts[k]
         /\ Len(t_fed[r][k]) = Len(TRAINING_FEATURES)
         /\ t_fed[r][k][Column("temperature")] = t_forecasts[k]
         /\ t_fed[r][k][Column("clouds")] = t_forecasts[k]
         /\ t_fed[r][k][Column("aqi_roll_mean_24")] = t_seed[4]
         /\ t_predictions[r][k].aqi = py_int(ApplyModel(t_model, t_fed[r][k]))
         /\ k > 1 =>
              t_fed[r][k][Column("aqi_lag_24")] =
                ApplyModel(t_model, t_fed[r][k - 1])

\* A run has used every one of four weather points.
C26_Witness ==
  /\ t_model = "byPoint"
  /\ t_forecasts = <<0, 8, 16, 24>>
  /\ Len(t_predictions[1]) = N_POINTS
  /\ t_predictions[1][N_POINTS].point = 24
  /\ t_predictions[1][N_POINTS].aqi = 127
  /\ t_fed[1][N_POINTS][Column("aqi_lag_24")] = Tenths(1266)

\* The versions of a listing whose run and metric could be read.
Readable(l) == SelectSeq(l, LAMBDA v : mae_of(v) # RunFails)

\* C25: a version whose metric read fails is skipped and the loop goes on:
\* after any number of versions, the loop holds the selection it would hold
\* had it been given only the readable ones among them.
C25_UnreadableVersionSkipped ==
  s_best = ScanAll(Readable(SubSeq(s_listing, 1, s_i)))

\* A finished scan in which the second of three versions could not be read
\* and the third, read after it, is the one selected.
C25_Witness ==
  /\ Len(s_listing) = 3
  /\ s_i = 3
  /\ mae_of(s_listing[1]) \in 1550..1555
  /\ mae_of(s_listing[2]) = RunFails
  /\ mae_of(s_listing[3]) \in 1550..1555
  /\ mae_of(s_listing[3]) < mae_of(s_listing[1])
  /\ s_best[2] = s_listing[3]

\* Bracket k of the pollutant's table ends where the previous row stood and
\* bracket k + 1 starts where the current row stands.
AcrossBoundary(pollutant, before, after) ==
  \E k \in 1..(Len(TableOf(pollutant)) - 1) :
    /\ TableOf(pollutant)[k][2] = before
    /\ TableOf(pollutant)[k + 1][1] = after

\* C27: a bracket at its upper bound and the next bracket at its lower bound
\* give the same index.
C27_ContinuousAtBoundaries ==
  (q_prev # None
     /\ AcrossBoundary(q_prev[1], q_prev[2],
                       IF q_prev[1] = "pm2_5" THEN pm2_5 ELSE pm10)) =>
    Same(q_prev[3], IF q_prev[1] = "pm2_5" THEN aqi_25 ELSE aqi_10)

\* C28: a concentration from 0 up to the top bound of its table gets the
\* sub-index 500 only at the top bound itself.
C28_CapOnlyAboveTable ==
  q_pc = "done" =>
    /\ (0 <= pm2_5 /\ pm2_5 < pm25_breakpoints[Len(pm25_breakpoints)][2]) =>
         Less(aqi_25, Whole(CAP))
    /\ (0 <= pm10 /\ pm10 < pm10_breakpoints[Len(pm10_breakpoints)][2]) =>
         Less(aqi_10, Whole(CAP))

(***************************************************************************)
(* Alert throttle, one call at a time: properties (SeqAlertSpec)           *)
(***************************************************************************)
\* C29: in a sequential series of calls, a send that succeeds comes at least
\* COOLDOWN_HOURS after the successful send before it.
C29_SendsCooldownApart ==
  [][(sent_at # None /\ sent_at' # sent_at) =>
       sent_at'[1] - sent_at[1] >= COOLDOWN_HOURS]_vars

(***************************************************************************)
(* Model resolver: the returned pair (ResolverSpec)                        *)
(***************************************************************************)
\* C30: a handle load_model_globally has returned comes with the name of
\* the family and version that handle was loaded from, and a forecast's
\* model_name is the name of the handle the call predicted with.
C30_NameMatchesHandle ==
  \A t \in Threads :
    (Returned(t) /\ ret_model[t] # None) =>
      /\ ret_name[t] = "NeuralNetwork v" \o ToString(ret_model[t][1])
      /\ result[t][1] = "forecast" =>
           result[t][2] = "NeuralNetwork v" \o ToString(ret_model[t][1])

====
